---- MODULE Spec2Model ----
(***************************************************************************)
(* Model of opcua-server.py: the coroutine run_opcua_server (the script's  *)
(* position is pc), the UserManager callback, the DataChangeHandler sink,  *)
(* and the client sessions that connect to and write into the server the   *)
(* script configures.  The subscription/notification engine and the write  *)
(* path are not in the script (it calls them on the wrapped server         *)
(* object); they are modelled from the specification's sections 4.1-4.3.   *)
(***************************************************************************)
EXTENDS Integers, Sequences, FiniteSets, TLC

\* ------------------------------------------------------------- bounds
\* Total number of successful client writes explored.
MaxWrites == 2

\* Inputs the clients draw from.
None == "None"
Usernames == {"alice", "bob"}
Secrets == {"pw1", "pw2"}
Sessions == {"s1", "s2"}
\* The writes a client may issue: <<variable, new value>>.
Writes == {<<"LeftTurnout", 1>>, <<"LeftTurnout", 7>>, <<"LeftLights", 1>>}

\* Credentials a client may present: username/secret pairs or nothing.
Creds ==
  {[user |-> "alice", secret |-> "pw1"], [user |-> "alice", secret |-> "pw2"],
   [user |-> "bob", secret |-> "pw2"], [user |-> None, secret |-> None]}

\* The --users argument after parsing: absent (None), an empty dict, or a
\* dict of username -> password.
UserTables ==
  {[given |-> FALSE, table |-> <<>>],
   [given |-> TRUE, table |-> <<>>],
   [given |-> TRUE, table |-> ("alice" :> "pw1")],
   [given |-> TRUE, table |-> ("alice" :> "pw1" @@ "bob" :> "pw2")]}

\* Identifiers the library may hand out for the Railway folder, whose id the
\* script does not choose (add_folder(idx, "Railway")).
AutoIds == {1, 2001, 2004}

\* ------------------------------------------------- program constants
LightsId == 2001
TurnoutsId == 2002
LeftTurnoutId == 2003
RightTurnoutId == 2004
LeftLightsId == 2005
RightLightsId == 2006
SamplingInterval == 100

VarNames == {"LeftTurnout", "RightTurnout", "LeftLights", "RightLights"}

VARIABLES
  users,        \* the users argument of run_opcua_server
  pc,           \* position of run_opcua_server
  serverState,  \* "created" | "running" | "stopped"
  nodes,        \* address space: set of [id, name, kind, parent]
  value,        \* variable name -> current value
  writable,     \* variable name -> writability flag
  revision,     \* variable name -> number of successful writes
  hist,         \* variable name -> sequence of writes [old, new, rev, deleted]
  user_manager_set,       \* server.user_manager was assigned
  allow_anonymous_write,  \* server.allow_anonymous_write
  session,      \* session -> [open, role, matched]; matched records whether
                \* the credentials presented at connect were a table entry
  lastResult,   \* outcome of the last client request
  auth_failed,  \* an "authentication failed" warning has been logged
  subState,     \* "None" | "Active" | "Deleting" | "Deleted"
  subInterval,  \* sampling interval of the subscription
  registered,   \* handle id -> [node, since] (the engine's observers)
  handles,      \* the script's list of handles
  inflight,     \* notifications emitted by the store, not yet delivered
  log           \* notifications the DataChangeHandler has logged

vars ==
  <<users, pc, serverState, nodes, value, writable, revision, hist,
    user_manager_set, allow_anonymous_write, session, lastResult, auth_failed,
    subState, subInterval, registered, handles, inflight, log>>

storeVars == <<nodes, value, writable, revision, hist>>
gateVars == <<user_manager_set, allow_anonymous_write>>
clientVars == <<session, lastResult, auth_failed>>
subVars == <<subState, subInterval, registered, handles, inflight, log>>

NoSession == [open |-> FALSE, role |-> "Rejected", matched |-> FALSE]

\* Python truthiness of the users argument: None and {} are falsy.
Truthy(u) == u.given /\ DOMAIN u.table # {}

\* ---------------------------------------------------------- UserManager
\* UserManager.user_manager: the returned boolean (ok) and the log record
\* emitted (its level and its text "User <who> <msg>").
user_manager_accept_known(tab, username, password) ==
  IF username \in DOMAIN tab
    THEN [ok |-> TRUE, level |-> "info", who |-> username,
          msg |-> "authenticated successfully"]
    ELSE [ok |-> FALSE, level |-> "warning", who |-> username,
          msg |-> "authentication failed"]

user_manager_any_secret(tab, username, password) ==
  IF username \in DOMAIN tab /\ \E u \in DOMAIN tab : tab[u] = password
    THEN [ok |-> TRUE, level |-> "info", who |-> username,
          msg |-> "authenticated successfully"]
    ELSE [ok |-> FALSE, level |-> "warning", who |-> username,
          msg |-> "authentication failed"]

user_manager_leaky(tab, username, password) ==
  IF username \in DOMAIN tab /\ tab[username] = password
    THEN [ok |-> TRUE, level |-> "info", who |-> username,
          msg |-> "authenticated successfully"]
    ELSE IF username \in DOMAIN tab
      THEN [ok |-> FALSE, level |-> "warning", who |-> username,
          msg |-> "authentication failed"]
      ELSE [ok |-> FALSE, level |-> "error", who |-> username,
          msg |-> "unknown user"]

user_manager(tab, username, password) ==
  IF username \in DOMAIN tab /\ tab[username] = password
    THEN [ok |-> TRUE, level |-> "info", who |-> username,
          msg |-> "authenticated successfully"]
    ELSE [ok |-> FALSE, level |-> "warning", who |-> username,
          msg |-> "authentication failed"]

\* --------------------------------------------------------------- Init
Init ==
  /\ users \in UserTables
  /\ pc = "init"
  /\ serverState = "created"
  /\ nodes = {}
  /\ value = <<>>
  /\ writable = <<>>
  /\ revision = <<>>
  /\ hist = <<>>
  /\ user_manager_set = FALSE
  /\ allow_anonymous_write = FALSE
  /\ session = [s \in Sessions |-> NoSession]
  /\ lastResult = "None"
  /\ auth_failed = FALSE
  /\ subState = "None"
  /\ subInterval = 0
  /\ registered = <<>>
  /\ handles = <<>>
  /\ inflight = <<>>
  /\ log = <<>>

\* ------------------------------------------- building the address space
Ids == {n.id : n \in nodes}

\* The library's add_folder/add_object/add_variable: a node with an id that
\* already exists is refused and the call raises.
AddNode(id, name, kind, parent, next) ==
  IF id \in Ids
    THEN /\ pc' = "done"
         /\ UNCHANGED nodes
    ELSE /\ pc' = next
         /\ nodes' = nodes \cup {[id |-> id, name |-> name, kind |-> kind, parent |-> parent]}

\* server = Server(); await server.init(); set_endpoint; set_server_name
ServerInit ==
  /\ pc = "init"
  /\ pc' = "register_namespace"
  /\ UNCHANGED <<users, serverState, storeVars, gateVars, clientVars, subVars>>

\* idx = await server.register_namespace(uri)
RegisterNamespace ==
  /\ pc = "register_namespace"
  /\ pc' = "add_folder"
  /\ UNCHANGED <<users, serverState, storeVars, gateVars, clientVars, subVars>>

\* railway = await server.nodes.objects.add_folder(idx, "Railway")
AddRailway ==
  /\ pc = "add_folder"
  /\ \E id \in AutoIds : AddNode(id, "Railway", "Folder", "Objects", "add_lights")
  /\ UNCHANGED <<users, serverState, value, writable, revision, hist, gateVars,
                 clientVars, subVars>>

\* lights = await railway.add_object(NodeId(2001, ...), "Lights")
AddLights ==
  /\ pc = "add_lights"
  /\ AddNode(LightsId, "Lights", "Object", "Railway", "add_turnouts")
  /\ UNCHANGED <<users, serverState, value, writable, revision, hist, gateVars,
                 clientVars, subVars>>

\* turnouts = await railway.add_object(NodeId(2002, ...), "Turnouts")
AddTurnouts ==
  /\ pc = "add_turnouts"
  /\ AddNode(TurnoutsId, "Turnouts", "Object", "Railway", "add_left_turnout")
  /\ UNCHANGED <<users, serverState, value, writable, revision, hist, gateVars,
                 clientVars, subVars>>

\* The initial value of ua.Variant(0, ua.VariantType.Int64).
InitialValue == 0

\* parent.add_variable(NodeId(id, ...), name, ua.Variant(0, Int64)): the new
\* variable starts with the given value, not writable, never written.
AddVariable(at, id, name, parent, initial, next) ==
  /\ pc = at
  /\ AddNode(id, name, "Variable", parent, next)
  /\ IF id \in Ids
       THEN UNCHANGED <<value, writable, revision, hist>>
       ELSE /\ value' = (name :> initial) @@ value
            /\ writable' = (name :> FALSE) @@ writable
            /\ revision' = (name :> 0) @@ revision
            /\ hist' = (name :> <<>>) @@ hist
  /\ UNCHANGED <<users, serverState, gateVars, clientVars, subVars>>

AddLeftTurnout_WrongInitial ==
  AddVariable("add_left_turnout", LeftTurnoutId, "LeftTurnout", "Turnouts",
              1, "add_right_turnout")

AddLeftTurnout ==
  AddVariable("add_left_turnout", LeftTurnoutId, "LeftTurnout", "Turnouts",
              InitialValue, "add_right_turnout")

AddRightTurnout ==
  AddVariable("add_right_turnout", RightTurnoutId, "RightTurnout", "Turnouts",
              InitialValue, "add_left_lights")

AddLeftLights ==
  AddVariable("add_left_lights", LeftLightsId, "LeftLights", "Lights",
              InitialValue, "add_right_lights")

AddRightLights ==
  AddVariable("add_right_lights", RightLightsId, "RightLights", "Lights",
              InitialValue, "set_writable")

\* await left_lights.set_writable() ... await right_turnout.set_writable()
MakeWritable_SkipOne ==
  /\ pc = "set_writable"
  /\ pc' = "configure"
  /\ writable' = [v \in DOMAIN writable |-> v # "RightTurnout"]
  /\ UNCHANGED <<users, serverState, nodes, value, revision, hist, gateVars,
                 clientVars, subVars>>

MakeWritable ==
  /\ pc = "set_writable"
  /\ pc' = "configure"
  /\ writable' = [v \in DOMAIN writable |-> TRUE]
  /\ UNCHANGED <<users, serverState, nodes, value, revision, hist, gateVars,
                 clientVars, subVars>>

\* if users: ... server.user_manager = user_manager.user_manager
\* if not users: server.allow_anonymous_write = True
Configure_AlwaysAnonymousWrite ==
  /\ pc = "configure"
  /\ pc' = "start"
  /\ user_manager_set' = Truthy(users)
  /\ allow_anonymous_write' = TRUE
  /\ UNCHANGED <<users, serverState, storeVars, clientVars, subVars>>

Configure ==
  /\ pc = "configure"
  /\ pc' = "start"
  /\ user_manager_set' = Truthy(users)
  /\ allow_anonymous_write' = ~Truthy(users)
  /\ UNCHANGED <<users, serverState, storeVars, clientVars, subVars>>

\* async with server: (entry) the server starts accepting sessions
ServerStart ==
  /\ pc = "start"
  /\ pc' = "create_subscription"
  /\ serverState' = "running"
  /\ UNCHANGED <<users, storeVars, gateVars, clientVars, subVars>>

\* An error or a cancellation raised while the address space is being built
\* (any await of lines 30-57): run_opcua_server ends, the server never starts.
AbortBuild ==
  /\ pc \in {"register_namespace", "add_folder", "add_lights", "add_turnouts",
             "add_left_turnout", "add_right_turnout", "add_left_lights",
             "add_right_lights", "set_writable"}
  /\ pc' = "done"
  /\ UNCHANGED <<users, serverState, storeVars, gateVars, clientVars, subVars>>

\* ------------------------------------------------- subscription engine
RECURSIVE Filter(_, _, _)
\* The subsequence of q at the indices in keep, from index i on.
Filter(q, i, keep) ==
  IF i > Len(q) THEN <<>>
  ELSE IF i \in keep THEN <<q[i]>> \o Filter(q, i + 1, keep)
  ELSE Filter(q, i + 1, keep)

ForHandle(q, h) == SelectSeq(q, LAMBDA n : n.handle = h)

FirstIdx(q, h) ==
  IF \E i \in 1..Len(q) : q[i].handle = h
    THEN CHOOSE i \in 1..Len(q) :
           q[i].handle = h /\ \A j \in 1..(i - 1) : q[j].handle # h
    ELSE 0

\* q without the notifications of handle h; with racing, the first one of h
\* (the delivery already under way) stays.
Purge(q, h, racing) ==
  Filter(q, 1, {i \in 1..Len(q) : q[i].handle # h \/ (racing /\ i = FirstIdx(q, h))})

\* Store-level change of node: one notification per handle registered on the
\* node in an Active subscription, in handle order.
Emit_Dedup(node, old, new, rev) ==
  IF subState = "Active" /\ old # new
    THEN LET hs == SelectSeq(handles, LAMBDA h : h \in DOMAIN registered
                                                 /\ registered[h].node = node)
         IN [i \in 1..Len(hs) |->
               [handle |-> hs[i], node |-> node, old |-> old, val |-> new, rev |-> rev]]
    ELSE <<>>

Emit(node, old, new, rev) ==
  IF subState = "Active"
    THEN LET hs == SelectSeq(handles, LAMBDA h : h \in DOMAIN registered
                                                 /\ registered[h].node = node)
         IN [i \in 1..Len(hs) |->
               [handle |-> hs[i], node |-> node, old |-> old, val |-> new, rev |-> rev]]
    ELSE <<>>

\* subscription.subscribe_data_change(node): a fresh handle observing node.
LibSubscribe(h, node) ==
  /\ subState = "Active"
  /\ node \in DOMAIN value
  /\ registered' = (h :> [node |-> node, since |-> revision[node]]) @@ registered

\* subscription.unsubscribe(h): the observer is removed; of the notifications
\* of h still in flight at most the one being delivered survives.
LibUnsubscribe(h) ==
  /\ h \in DOMAIN registered
  /\ registered' = [k \in DOMAIN registered \ {h} |-> registered[k]]
  /\ \E racing \in BOOLEAN : inflight' = Purge(inflight, h, racing)

\* DataChangeHandler.datachange_notification(node, val, data): one log line.
datachange_notification(n) ==
  log' = Append(log, [handle |-> n.handle, node |-> n.node, old |-> n.old,
                      val |-> n.val, rev |-> n.rev,
                      late |-> n.handle \notin DOMAIN registered])

\* The engine hands the oldest notification in flight to the sink.
Deliver ==
  /\ serverState = "running"
  /\ inflight # <<>>
  /\ datachange_notification(Head(inflight))
  /\ inflight' = Tail(inflight)
  /\ UNCHANGED <<users, pc, serverState, storeVars, gateVars, clientVars,
                 subState, subInterval, registered, handles>>

\* ------------------------------------- the body of "async with server"
SubscribeTargets == <<"LeftLights", "RightLights", "LeftTurnout", "RightTurnout">>

\* subscription = await server.create_subscription(100, DataChangeHandler())
\* handles = []
CreateSubscription ==
  /\ pc = "create_subscription"
  /\ pc' = "subscribe"
  /\ subState' = "Active"
  /\ subInterval' = SamplingInterval
  /\ handles' = <<>>
  /\ UNCHANGED <<users, serverState, storeVars, gateVars, clientVars,
                 registered, inflight, log>>

\* handles.append(await subscription.subscribe_data_change(<variable>))
Subscribe ==
  /\ pc = "subscribe"
  /\ LET i == Len(handles) + 1
     IN /\ LibSubscribe(i, SubscribeTargets[i])
        /\ handles' = Append(handles, i)
        /\ pc' = IF i = Len(SubscribeTargets) THEN "loop" ELSE "subscribe"
  /\ UNCHANGED <<users, serverState, storeVars, gateVars, clientVars,
                 subState, subInterval, inflight, log>>

\* An error or a cancellation raised at an await of lines 78-83: these lines
\* are outside the try statement, so control leaves the with block directly.
RaiseInSetup ==
  /\ pc \in {"create_subscription", "subscribe"}
  /\ pc' = "stop"
  /\ UNCHANGED <<users, serverState, storeVars, gateVars, clientVars, subVars>>

\* Cancellation raised at await asyncio.sleep(1): control enters finally.
CancelLoop ==
  /\ pc = "loop"
  /\ pc' = "unsubscribe"
  /\ UNCHANGED <<users, serverState, storeVars, gateVars, clientVars, subVars>>

\* The handles of the script's list not yet unsubscribed, in list order.
Pending == SelectSeq(handles, LAMBDA h : h \in DOMAIN registered)

\* for handle in handles: await subscription.unsubscribe(handle)
Unsubscribe ==
  /\ pc = "unsubscribe"
  /\ Pending # <<>>
  /\ LibUnsubscribe(Head(Pending))
  /\ pc' = IF Len(Pending) = 1 THEN "delete" ELSE "unsubscribe"
  /\ UNCHANGED <<users, serverState, storeVars, gateVars, clientVars,
                 subState, subInterval, handles, log>>

\* subscription.delete(), first half: the subscription stops taking handles;
\* deliveries in flight for handles already removed are suppressed.
LibDeleteBegin ==
  /\ subState = "Active"
  /\ subState' = "Deleting"
  /\ inflight' = SelectSeq(inflight, LAMBDA n : n.handle \in DOMAIN registered)
  /\ UNCHANGED registered

\* subscription.delete(), second half: every remaining handle is removed and
\* the subscription is gone.
LibDeleteEnd_FailsWhenEmpty ==
  /\ subState = "Deleting"
  /\ IF registered = <<>>
       THEN UNCHANGED <<subState, registered, inflight>>
       ELSE /\ subState' = "Deleted"
            /\ registered' = <<>>
            /\ inflight' = <<>>

LibDeleteEnd ==
  /\ subState = "Deleting"
  /\ subState' = "Deleted"
  /\ registered' = <<>>
  /\ inflight' = <<>>

\* await subscription.delete(): the call is made ...
Delete_Omitted ==
  /\ pc = "delete"
  /\ pc' = "stop"
  /\ UNCHANGED <<users, serverState, storeVars, gateVars, clientVars, subVars>>

Delete ==
  /\ pc = "delete"
  /\ pc' = "deleting"
  /\ LibDeleteBegin
  /\ UNCHANGED <<users, serverState, storeVars, gateVars, clientVars,
                 subInterval, handles, log>>

\* ... and returns.
DeleteReturn ==
  /\ pc = "deleting"
  /\ pc' = "stop"
  /\ LibDeleteEnd
  /\ UNCHANGED <<users, serverState, storeVars, gateVars, clientVars,
                 subInterval, handles, log>>

\* async with server: (exit) the server is released, its sessions closed.
ServerStop ==
  /\ pc = "stop"
  /\ pc' = "done"
  /\ serverState' = "stopped"
  /\ session' = [s \in Sessions |-> NoSession]
  /\ UNCHANGED <<users, storeVars, gateVars, lastResult, auth_failed, subVars>>

\* ------------------------------------------------------------ sessions
\* The gate's decision for presented credentials: the installed user manager
\* decides; without one every attempt is let in as Anonymous.
Authenticate(c) ==
  IF user_manager_set
    THEN IF user_manager(users.table, c.user, c.secret).ok THEN "User" ELSE "Rejected"
    ELSE "Anonymous"

CanWrite(role) ==
  \/ role = "User"
  \/ role = "Anonymous" /\ allow_anonymous_write

Connect(s, c) ==
  /\ serverState = "running"
  /\ ~session[s].open
  /\ LET role == Authenticate(c)
     IN IF role = "Rejected"
          THEN /\ lastResult' = "Rejected"
               /\ auth_failed' = TRUE
               /\ UNCHANGED session
          ELSE /\ lastResult' = "Accepted"
               /\ session' = [session EXCEPT ![s] =
                                [open |-> TRUE, role |-> role,
                                 matched |-> c.user \in DOMAIN users.table
                                             /\ users.table[c.user] = c.secret]]
               /\ UNCHANGED auth_failed
  /\ UNCHANGED <<users, pc, serverState, storeVars, gateVars, subVars>>

TotalWrites ==
  revision["LeftTurnout"] + revision["RightTurnout"]
  + revision["LeftLights"] + revision["RightLights"]

WriteOutcome(s, node) ==
  IF node \notin DOMAIN value THEN "NodeNotFoundError"
  ELSE IF ~writable[node] THEN "NotWritableError"
  ELSE IF ~CanWrite(session[s].role) THEN "AuthorizationError"
  ELSE "Good"

\* writeValue(node, x, role of s): on success the value is replaced, the
\* revision bumped and the change emitted, all before the call returns.
WriteValue(s, node, x) ==
  /\ serverState = "running"
  /\ LET res == WriteOutcome(s, node)
     IN /\ lastResult' = res
        /\ IF res = "Good"
             THEN /\ TotalWrites < MaxWrites
                  /\ value' = [value EXCEPT ![node] = x]
                  /\ revision' = [revision EXCEPT ![node] = @ + 1]
                  /\ hist' = [hist EXCEPT ![node] =
                                Append(@, [old |-> value[node], new |-> x,
                                           rev |-> revision[node] + 1,
                                           deleted |-> subState = "Deleted"])]
                  /\ inflight' = inflight \o Emit(node, value[node], x, revision[node] + 1)
             ELSE UNCHANGED <<value, revision, hist, inflight>>
  /\ UNCHANGED <<users, pc, serverState, nodes, writable, gateVars, session,
                 auth_failed, subState, subInterval, registered, handles, log>>

\* ---------------------------------------------------------------- Next
Next ==
  \/ ServerInit
  \/ RegisterNamespace
  \/ AddRailway
  \/ AddLights
  \/ AddTurnouts
  \/ AddLeftTurnout
  \/ AddRightTurnout
  \/ AddLeftLights
  \/ AddRightLights
  \/ MakeWritable
  \/ Configure
  \/ AbortBuild
  \/ ServerStart
  \/ CreateSubscription
  \/ Subscribe
  \/ RaiseInSetup
  \/ CancelLoop
  \/ Unsubscribe
  \/ Delete
  \/ DeleteReturn
  \/ ServerStop
  \/ Deliver
  \/ \E s \in Sessions, c \in Creds : Connect(s, c)
  \/ \E s \in Sessions, w \in Writes : WriteValue(s, w[1], w[2])

Spec == Init /\ [][Next]_vars

\* =============================================================== claims
\* The server has been started (it is running or was released).
Started == serverState # "created"

\* Line 91 has returned: the finally block ran through (it is entered only
\* from the loop, with all four handles in the list).
DeleteReturned == pc \in {"stop", "done"} /\ Len(handles) = Len(SubscribeTargets)

AllCreds == [user : Usernames \cup {None}, secret : Secrets \cup {None}]

Matches(u, p) == u \in DOMAIN users.table /\ users.table[u] = p

\* C1: with a non-empty credential table configured, authenticate(username,
\* secret) accepts exactly the pairs whose username is a key of the table and
\* whose secret equals the stored one; every other pair is rejected, and every
\* open session presented such a pair.
C1_ExactMatch ==
  (Started /\ Truthy(users)) =>
    /\ \A c \in AllCreds :
         /\ Matches(c.user, c.secret) => Authenticate(c) = "User"
         /\ ~Matches(c.user, c.secret) => Authenticate(c) = "Rejected"
    /\ \A s \in Sessions :
         session[s].open => session[s].matched

C1_Witness ==
  /\ Truthy(users)
  /\ lastResult = "Rejected"
  /\ \E s \in Sessions : session[s].open /\ session[s].role = "User"

\* C2: with an empty or absent credential table every authentication attempt
\* succeeds and the session can write; anonymous write capability is enabled
\* exactly when no users are configured.
C2_AnonymousPolicy ==
  Started =>
    /\ allow_anonymous_write <=> ~Truthy(users)
    /\ ~Truthy(users) =>
         /\ ~auth_failed
         /\ \A c \in AllCreds :
              Authenticate(c) # "Rejected" /\ CanWrite(Authenticate(c))
         /\ \A s \in Sessions : session[s].open => CanWrite(session[s].role)

C2_Witness ==
  /\ ~Truthy(users)
  /\ lastResult = "Good"
  /\ \A s \in Sessions : session[s].open /\ session[s].role = "Anonymous"

\* C3: a writeValue by a requester whose role lacks write capability fails
\* with AuthorizationError and changes neither value nor revision; with a
\* credential table configured, a value changes only in a write by a session
\* that presented matching credentials.
C3_UnauthorizedWriteRefused ==
  [][/\ \A s \in Sessions, w \in Writes :
          (WriteValue(s, w[1], w[2]) /\ ~CanWrite(session[s].role)) =>
            /\ lastResult' = "AuthorizationError"
            /\ value' = value
            /\ revision' = revision
     /\ (serverState = "running" /\ Truthy(users) /\ value' # value) =>
          \E s \in Sessions, w \in Writes :
            /\ WriteValue(s, w[1], w[2])
            /\ session[s].open
            /\ session[s].matched]_vars

C3_Witness ==
  /\ Truthy(users)
  /\ lastResult = "AuthorizationError"
  /\ auth_failed
  /\ TotalWrites > 0

\* C4: for every handle registered on a variable V, the notifications of the
\* handle (logged or in flight) are exactly one per write to V since the
\* handle was registered, in write order; for a handle that was unsubscribed,
\* at most one notification is delivered (or still deliverable) afterwards.
Notes(h) == ForHandle(log, h) \o ForHandle(inflight, h)

LateCount(h) ==
  Len(SelectSeq(log, LAMBDA n : n.handle = h /\ n.late)) + Len(ForHandle(inflight, h))

C4_OneNotificationPerWrite ==
  /\ subState = "Active" =>
       \A h \in DOMAIN registered :
         LET v == registered[h].node
             since == registered[h].since
             ns == Notes(h)
         IN /\ Len(ns) = revision[v] - since
            /\ \A i \in 1..Len(ns) :
                 /\ ns[i].node = v
                 /\ ns[i].rev = since + i
                 /\ ns[i].val = hist[v][since + i].new
  /\ \A i \in 1..Len(handles) :
       handles[i] \notin DOMAIN registered => LateCount(handles[i]) <= 1

C4_Witness ==
  /\ \E n \in 1..Len(log) : log[n].late
  /\ \E h \in DOMAIN registered : Len(ForHandle(log, h)) >= 1
  /\ subState = "Active"

\* C5: whenever the server has been released, every subscription that was
\* created has been deleted and none of its handles is still registered.
C5_ShutdownOnEveryExit ==
  serverState = "stopped" => (subState \in {"None", "Deleted"} /\ registered = <<>>)

\* C6: once subscription.delete() has returned, the subscription is deleted,
\* no observer and no notification in flight remains, and no later step (in
\* particular no later write) delivers anything to the sink.
C6_NothingAfterDelete ==
  /\ [](DeleteReturned =>
          (subState = "Deleted" /\ registered = <<>> /\ inflight = <<>>))
  /\ [][DeleteReturned => log' = log]_vars

C6_Witness ==
  /\ DeleteReturned
  /\ \E v \in DOMAIN hist : \E i \in 1..Len(hist[v]) : hist[v][i].deleted
  /\ log # <<>>

\* C7: per variable the writes are linearized: the revision counts the
\* successful writes, the i-th write has revision i and saw as old value the
\* value left by write i-1 (the initial 0 for the first), the stored value is
\* that of the last write, and every notification carries the old and new
\* value of the write with its revision.
C7_WritesLinearized ==
  /\ \A v \in DOMAIN hist :
       /\ revision[v] = Len(hist[v])
       /\ value[v] = IF hist[v] = <<>> THEN 0 ELSE hist[v][Len(hist[v])].new
       /\ \A i \in 1..Len(hist[v]) :
            /\ hist[v][i].rev = i
            /\ hist[v][i].old = IF i = 1 THEN 0 ELSE hist[v][i - 1].new
  /\ \A i \in 1..Len(log) :
       /\ log[i].old = hist[log[i].node][log[i].rev].old
       /\ log[i].val = hist[log[i].node][log[i].rev].new
       /\ \A j \in (i + 1)..Len(log) :
            log[j].node = log[i].node => log[i].rev < log[j].rev
  /\ \A i \in 1..Len(inflight) :
       /\ inflight[i].old = hist[inflight[i].node][inflight[i].rev].old
       /\ inflight[i].val = hist[inflight[i].node][inflight[i].rev].new

C7_Witness ==
  /\ serverState = "running"
  /\ ~Truthy(users)
  /\ value["LeftTurnout"] = 7
  /\ revision["LeftTurnout"] = 2
  /\ Len(log) = 2
  /\ log[1].node = "LeftTurnout" /\ log[1].old = 0 /\ log[1].val = 1
  /\ log[2].node = "LeftTurnout" /\ log[2].old = 1 /\ log[2].val = 7
  /\ \A s \in Sessions : session[s].open

\* C8: once the server has started, the address space is the fixed tree
\* Railway / {Lights, Turnouts} / four variables with pairwise distinct ids,
\* all four variables are writable and hold 0 until written, and no node is
\* ever added or removed.
Shape == {[name |-> n.name, kind |-> n.kind, parent |-> n.parent] : n \in nodes}

FixedTree ==
  {[name |-> "Railway", kind |-> "Folder", parent |-> "Objects"],
   [name |-> "Lights", kind |-> "Object", parent |-> "Railway"],
   [name |-> "Turnouts", kind |-> "Object", parent |-> "Railway"],
   [name |-> "LeftLights", kind |-> "Variable", parent |-> "Lights"],
   [name |-> "RightLights", kind |-> "Variable", parent |-> "Lights"],
   [name |-> "LeftTurnout", kind |-> "Variable", parent |-> "Turnouts"],
   [name |-> "RightTurnout", kind |-> "Variable", parent |-> "Turnouts"]}

C8_FixedAddressSpace ==
  /\ [](Started =>
          /\ Shape = FixedTree
          /\ Cardinality(Ids) = Cardinality(FixedTree)
          /\ Cardinality(nodes) = Cardinality(FixedTree)
          /\ DOMAIN value = VarNames
          /\ \A v \in VarNames : writable[v] /\ (revision[v] = 0 => value[v] = 0))
  /\ [][Started => nodes' = nodes]_vars
  /\ [][(~Started /\ Started') =>
          \A v \in VarNames : value'[v] = 0 /\ revision'[v] = 0 /\ writable'[v]]_vars

C8_Witness ==
  /\ serverState = "running"
  /\ TotalWrites = MaxWrites
  /\ value["LeftLights"] = 1

C10_RejectionUniform ==
  /\ [](\A c1 \in AllCreds, c2 \in AllCreds :
          (/\ c1.user \notin DOMAIN users.table
           /\ c2.user \in DOMAIN users.table
           /\ users.table[c2.user] # c2.secret) =>
            /\ user_manager(users.table, c1.user, c1.secret).ok
                 = user_manager(users.table, c2.user, c2.secret).ok
            /\ user_manager(users.table, c1.user, c1.secret).level
                 = user_manager(users.table, c2.user, c2.secret).level
            /\ user_manager(users.table, c1.user, c1.secret).msg
                 = user_manager(users.table, c2.user, c2.secret).msg)
  /\ [][\A s \in Sessions, c \in Creds :
          (Connect(s, c) /\ Authenticate(c) = "Rejected") =>
            /\ lastResult' = "Rejected"
            /\ UNCHANGED <<users, pc, serverState, storeVars, gateVars, session, subVars>>]_vars
  /\ [](auth_failed =>
          \A c \in AllCreds : Matches(c.user, c.secret) => Authenticate(c) = "User")

C10_Witness ==
  /\ auth_failed
  /\ lastResult = "Accepted"
  /\ \E s \in Sessions : ~session[s].open

====
